---------------------------- MODULE Spec2Model ----------------------------
(***************************************************************************)
(* Pricing decision engine of OwlWays: predict_price_range and             *)
(* decide_recommendation (tools.py), predict_future_prices                 *)
(* (real_data_service.py), the get_future_predictions wrapper and the      *)
(* explanation layer BedrockAgent.generate_explanation (agents.py).        *)
(*                                                                         *)
(* Python floats are modelled as exact rationals [num, den] in lowest      *)
(* terms; int(x) is truncation toward zero.  A call is one step: the       *)
(* caller picks the arguments, the function body runs and the frame holds  *)
(* the arguments and the returned value until Return clears it.            *)
(***************************************************************************)
EXTENDS Integers, Sequences, FiniteSets, TLC

(***************************************************************************)
(* Bounds of the explored inputs.                                          *)
(***************************************************************************)
MaxQuote == 8       \* current_price ranges over 0..MaxQuote
MaxQuantile == 7    \* q10, q50, q90 of a statistics record range over 0..MaxQuantile
MaxBudget == 6      \* user_budget ranges over 1..MaxBudget
MaxSummaryLen == 2  \* length of the histories whose summary is given to decide_recommendation
MaxHistLen == 4     \* length of a price_history given to predict_price_range
MaxPrice == 4       \* prices of such a price_history range over 0..MaxPrice
MaxTrendLen == 10   \* length of a historical_prices given to predict_future_prices
MaxTrendPrice == 1  \* prices of such a historical_prices range over 0..MaxTrendPrice
MaxTail == 5        \* the last MaxTail prices of it vary freely, the earlier ones are equal
MaxDaysAhead == 2   \* days_ahead of a direct call ranges over 0..MaxDaysAhead
MaxDraws == 1       \* histories generated from the random generator in a behaviour
MaxFlights == 2     \* flights of a flight_data given to generate_explanation
MaxFlightPrice == 2 \* their prices range over 1..MaxFlightPrice
MaxRepeatLen == 2   \* length of a history summarized twice
MaxRepeatPrice == 1 \* prices and budgets of the calls that are made twice

(***************************************************************************)
(* Exact rational arithmetic standing for float arithmetic.                *)
(***************************************************************************)
RECURSIVE GCD(_, _)
GCD(a, b) == IF b = 0 THEN a ELSE GCD(b, a % b)

Abs(i) == IF i < 0 THEN -i ELSE i

Frac(n, d) ==
    LET s == IF d < 0 THEN -1 ELSE 1
        g == GCD(Abs(n), Abs(d))
    IN  [num |-> (s * n) \div g, den |-> (s * d) \div g]

FromInt(i) == [num |-> i, den |-> 1]

LCM(a, b) == (a \div GCD(a, b)) * b

RAdd(x, y) ==
    LET l == LCM(x.den, y.den)
    IN  Frac(x.num * (l \div x.den) + y.num * (l \div y.den), l)

RNeg(x) == [num |-> -x.num, den |-> x.den]

RSub(x, y) == RAdd(x, RNeg(y))

RMul(x, y) ==
    LET g1 == GCD(Abs(x.num), y.den)
        g2 == GCD(Abs(y.num), x.den)
        h1 == IF g1 = 0 THEN 1 ELSE g1
        h2 == IF g2 = 0 THEN 1 ELSE g2
    IN  Frac((x.num \div h1) * (y.num \div h2), (x.den \div h2) * (y.den \div h1))

RDiv(x, y) == RMul(x, Frac(y.den, y.num))

RLt(x, y) == x.num * y.den < y.num * x.den

RLe(x, y) == x.num * y.den <= y.num * x.den

RAbs(x) == [num |-> Abs(x.num), den |-> x.den]

RMin(x, y) == IF RLt(y, x) THEN y ELSE x

\* math.floor of a rational
Floor(x) == x.num \div x.den

\* Python int(float): truncation toward zero
Trunc(x) == IF x.num >= 0 THEN x.num \div x.den ELSE -((-x.num) \div x.den)

(***************************************************************************)
(* tools.py: decide_recommendation                                         *)
(***************************************************************************)
\* the float literal 1.2 of `user_budget * 1.2`
OverBudgetFactor == Frac(12, 10)

\* RuleChain with the first comparison strict (p < q10)
RuleChain_StrictQ10(p, q10, q50, q90, budget) ==
    IF p < q10
    THEN [decision |-> "BUY NOW", confidence |-> Frac(9, 10),
          reason |-> <<"Excellent deal! bottom 10% of historical prices">>]
    ELSE IF p <= q50
    THEN [decision |-> IF p <= budget THEN "BUY" ELSE "WAIT",
          confidence |-> Frac(7, 10),
          reason |-> <<"Good price, below median">>]
    ELSE IF p <= q90
    THEN [decision |-> "WAIT", confidence |-> Frac(6, 10),
          reason |-> <<"above median, consider waiting or flexible dates">>]
    ELSE [decision |-> "ALTERNATE", confidence |-> Frac(8, 10),
          reason |-> <<"top 10%, try different dates or nearby airports">>]

\* RuleChain whose below-median branch ignores the budget
RuleChain_IgnoreBudget(p, q10, q50, q90, budget) ==
    IF p <= q10
    THEN [decision |-> "BUY NOW", confidence |-> Frac(9, 10),
          reason |-> <<"Excellent deal! bottom 10% of historical prices">>]
    ELSE IF p <= q50
    THEN [decision |-> "BUY",
          confidence |-> Frac(7, 10),
          reason |-> <<"Good price, below median">>]
    ELSE IF p <= q90
    THEN [decision |-> "WAIT", confidence |-> Frac(6, 10),
          reason |-> <<"above median, consider waiting or flexible dates">>]
    ELSE [decision |-> "ALTERNATE", confidence |-> Frac(8, 10),
          reason |-> <<"top 10%, try different dates or nearby airports">>]

\* lines 88-103: the if/elif chain that sets decision, confidence, reason
RuleChain(p, q10, q50, q90, budget) ==
    IF p <= q10
    THEN [decision |-> "BUY NOW", confidence |-> Frac(9, 10),
          reason |-> <<"Excellent deal! bottom 10% of historical prices">>]
    ELSE IF p <= q50
    THEN [decision |-> IF p <= budget THEN "BUY" ELSE "WAIT",
          confidence |-> Frac(7, 10),
          reason |-> <<"Good price, below median">>]
    ELSE IF p <= q90
    THEN [decision |-> "WAIT", confidence |-> Frac(6, 10),
          reason |-> <<"above median, consider waiting or flexible dates">>]
    ELSE [decision |-> "ALTERNATE", confidence |-> Frac(8, 10),
          reason |-> <<"top 10%, try different dates or nearby airports">>]

\* OverBudget with the factor 1.5 in place of 1.2
OverBudget_Lenient(p, budget) == RLt(RMul(FromInt(budget), Frac(15, 10)), FromInt(p))

\* line 106: current_price > user_budget * 1.2
OverBudget(p, budget) == RLt(RMul(FromInt(budget), OverBudgetFactor), FromInt(p))

\* BudgetConsideration that leaves a BUY NOW decision alone
BudgetConsideration_KeepBuyNow(r, p, budget) ==
    IF OverBudget(p, budget) /\ r.decision # "BUY NOW"
    THEN [r EXCEPT !.decision = "ALTERNATE",
                   !.reason = @ \o <<"Significantly over budget">>]
    ELSE r

\* BudgetConsideration that also lowers the confidence by 0.2
BudgetConsideration_Penalised(r, p, budget) ==
    IF OverBudget(p, budget)
    THEN [r EXCEPT !.decision = "ALTERNATE",
                   !.confidence = RSub(@, Frac(2, 10)),
                   !.reason = @ \o <<"Significantly over budget">>]
    ELSE r

\* lines 105-108: the budget consideration patches decision and reason
BudgetConsideration(r, p, budget) ==
    IF OverBudget(p, budget)
    THEN [r EXCEPT !.decision = "ALTERNATE",
                   !.reason = @ \o <<"Significantly over budget">>]
    ELSE r

\* lines 114-116: the conditional expression of the returned price_position
PricePosition(p, q10, q50, q90) ==
    IF p <= q10 THEN "bottom 10%"
    ELSE IF p <= q50 THEN "below median"
    ELSE IF p <= q90 THEN "above median"
    ELSE "top 10%"

\* StatsKeys with "mean" read as well
StatsKeys_WithMean == {"q10", "q50", "q90", "mean"}

\* line 85: the keys of price_stats that are subscripted
StatsKeys == {"q10", "q50", "q90"}

\* subscripting a dict with a key it does not hold raises KeyError
decide_recommendation(p, stats, budget) ==
    IF ~(StatsKeys \subseteq DOMAIN stats)
    THEN [raised |-> "KeyError"]
    ELSE
    LET q10 == stats.q10
        q50 == stats.q50
        q90 == stats.q90
        r == BudgetConsideration(RuleChain(p, q10, q50, q90, budget), p, budget)
    IN  [decision |-> r.decision,
         confidence |-> r.confidence,
         reason |-> r.reason,
         price_position |-> PricePosition(p, q10, q50, q90)]

(***************************************************************************)
(* tools.py: predict_price_range                                           *)
(***************************************************************************)
\* the fixed record returned for an empty history (line 68)
DefaultQ10 == 200
DefaultQ50 == 250
DefaultQ90 == 300

RECURSIVE SumSeq(_)
SumSeq(xs) == IF xs = <<>> THEN 0 ELSE Head(xs) + SumSeq(Tail(xs))

RECURSIVE LCMSeq(_)
LCMSeq(ds) == IF ds = <<>> THEN 1 ELSE LCM(Head(ds), LCMSeq(Tail(ds)))

\* the sum of a sequence of rationals, over their common denominator
RSumSeq(xs) ==
    LET l == LCMSeq([i \in 1..Len(xs) |-> xs[i].den])
    IN  Frac(SumSeq([i \in 1..Len(xs) |-> xs[i].num * (l \div xs[i].den)]), l)

RECURSIVE Insert(_, _)
Insert(x, xs) ==
    IF xs = <<>> THEN <<x>>
    ELSE IF x <= Head(xs) THEN <<x>> \o xs
    ELSE <<Head(xs)>> \o Insert(x, Tail(xs))

\* SortPrices that leaves the array as given
SortPrices_Unsorted(xs) == xs

\* np.percentile orders the array before it indexes it
RECURSIVE SortPrices(_)
SortPrices(xs) == IF xs = <<>> THEN <<>> ELSE Insert(Head(xs), SortPrices(Tail(xs)))

\* Lerp with the difference taken the wrong way round
Lerp_Reversed(a, b, t) ==
    LET diff == a - b
    IN  RAdd(FromInt(a), RMul(FromInt(diff), t))

\* numpy _lerp(a, b, t): a + (b - a) * t, computed from b when t >= 0.5
Lerp(a, b, t) ==
    LET diff == b - a
    IN  IF RLe(Frac(1, 2), t)
        THEN RSub(FromInt(b), RMul(FromInt(diff), RSub(FromInt(1), t)))
        ELSE RAdd(FromInt(a), RMul(FromInt(diff), t))

\* np.percentile(prices, q), method 'linear': virtual index (n - 1) * q / 100,
\* the neighbouring order statistics and the fractional part as weight
Percentile(prices, q) ==
    LET arr == SortPrices(prices)
        n == Len(arr)
        virtual == RMul(FromInt(n - 1), Frac(q, 100))
        previous == Floor(virtual)
        next == IF previous + 1 > n - 1 THEN n - 1 ELSE previous + 1
        gamma == RSub(virtual, FromInt(previous))
    IN  Lerp(arr[previous + 1], arr[next + 1], gamma)

\* np.mean
Mean(xs) == Frac(SumSeq(xs), Len(xs))

\* the largest k with k * k <= v: int(sqrt(v)) for v >= 0
RECURSIVE SqrtFrom(_, _)
SqrtFrom(v, k) ==
    IF (k + 1) * (k + 1) * v.den > v.num THEN k ELSE SqrtFrom(v, k + 1)

TruncSqrt(v) == SqrtFrom(v, 0)

\* np.std squared: mean(abs(x - x.mean()) ** 2), divisor n.  With m the
\* mean, abs(x[i] - m) is dev[i] / m.den.
Variance(xs) ==
    LET m == Mean(xs)
        dev == [i \in 1..Len(xs) |-> Abs(xs[i] * m.den - m.num)]
    IN  Frac(SumSeq([i \in 1..Len(xs) |-> dev[i] * dev[i]]), m.den * m.den * Len(xs))

\* predict_price_range that also returns mean and std with the default
predict_price_range_DefaultWithMean(h) ==
    IF h = <<>>
    THEN [q10 |-> DefaultQ10, q50 |-> DefaultQ50, q90 |-> DefaultQ90,
          mean |-> DefaultQ50, std |-> 0]
    ELSE [q10 |-> Trunc(Percentile(h, 10)),
          q50 |-> Trunc(Percentile(h, 50)),
          q90 |-> Trunc(Percentile(h, 90)),
          mean |-> Trunc(Mean(h)),
          std |-> TruncSqrt(Variance(h))]

\* predict_price_range that takes the default for a history of one price too
predict_price_range_ShortDefault(h) ==
    IF Len(h) <= 1
    THEN [q10 |-> DefaultQ10, q50 |-> DefaultQ50, q90 |-> DefaultQ90]
    ELSE [q10 |-> Trunc(Percentile(h, 10)),
          q50 |-> Trunc(Percentile(h, 50)),
          q90 |-> Trunc(Percentile(h, 90)),
          mean |-> Trunc(Mean(h)),
          std |-> TruncSqrt(Variance(h))]

predict_price_range(h) ==
    IF h = <<>>
    THEN [q10 |-> DefaultQ10, q50 |-> DefaultQ50, q90 |-> DefaultQ90]
    ELSE [q10 |-> Trunc(Percentile(h, 10)),
          q50 |-> Trunc(Percentile(h, 50)),
          q90 |-> Trunc(Percentile(h, 90)),
          mean |-> Trunc(Mean(h)),
          std |-> TruncSqrt(Variance(h))]

(***************************************************************************)
(* real_data_service.py: RealFlightDataService.predict_future_prices       *)
(***************************************************************************)
MinHistory == 10        \* line 265: len(historical_prices) < 10
DefaultDaysAhead == 7   \* line 263: days_ahead=7
RecentWindow == 7       \* line 285: historical_prices[-7:]

\* the float literals of lines 288 and 291
IncreasingFactor == Frac(105, 100)
DecreasingFactor == Frac(95, 100)

\* ConfidenceCap of 0.9
ConfidenceCap_Loose == Frac(9, 10)

\* the float literals 0.8 (lines 290, 293), 0.6 (line 296) and 0.5 (line 266)
ConfidenceCap == Frac(8, 10)
StableConfidence == Frac(6, 10)
InsufficientConfidence == Frac(5, 10)

RMean(xs) == RDiv(RSumSeq(xs), FromInt(Len(xs)))

\* StandardScaler.fit: mean_ of the column 0..n-1
ScalerMean(n) == Frac(SumSeq([i \in 1..n |-> i - 1]), n)

\* StandardScaler.transform(x) = (x - mean_) / scale_, with scale_ the square
\* root of the column's variance.  scale_ is irrational; the model carries
\* the scaled value times scale_, and the coefficient divided by scale_, so
\* that every product of the two is the exact product the code computes.
\* The numerator of (x - mean_) over the denominator mean_.den:
ScaledNum(x, mean_) == mean_.den * x - mean_.num

ScaledTimesScale(x, mean_) == Frac(ScaledNum(x, mean_), mean_.den)

\* LinearRegression.fit(X_scaled, y): both columns are centred on their means
\* (X_offset, y_offset), coef_ = sum(Xc * yc) / sum(Xc * Xc), held here as
\* coef_ / scale_, and intercept_ = y_offset - X_offset * coef_.  The sums
\* are taken over common denominators: with b = mean_.den,
\*   X_scaled[i] = xs[i] / b,  X_offset = sum(xs) / (b n),
\*   Xc[i] = xc[i] / (b n),    yc[i] = yc[i] / n.
LinearRegressionFit(h, mean_) ==
    LET n == Len(h)
        xs == [i \in 1..n |-> ScaledNum(i - 1, mean_)]
        sx == SumSeq(xs)
        sy == SumSeq(h)
        xc == [i \in 1..n |-> n * xs[i] - sx]
        yc == [i \in 1..n |-> n * h[i] - sy]
        sxy == SumSeq([i \in 1..n |-> xc[i] * yc[i]])
        sxx == SumSeq([i \in 1..n |-> xc[i] * xc[i]])
        coef == Frac(mean_.den * sxy, sxx)
    IN  [coef |-> coef,
         intercept |-> RSub(Frac(sy, n), RMul(Frac(sx, mean_.den * n), coef))]

\* model.predict(scaler.transform([[t]])) = X_scaled * coef_ + intercept_
PredictAt(t, mean_, model) ==
    RAdd(RMul(ScaledTimesScale(t, mean_), model.coef), model.intercept)

\* model.score(X_scaled, y): r2_score = 1 - SS_res / SS_tot, and 1.0 or 0.0
\* when SS_tot is zero.  With l the common denominator of the predictions,
\* the residual y[i] - predict(X_scaled[i]) is res[i] / l.
Score(h, mean_, model) ==
    LET n == Len(h)
        sy == SumSeq(h)
        cd == mean_.den * model.coef.den
        l == LCM(cd, model.intercept.den)
        res == [i \in 1..n |->
                   h[i] * l
                   - ScaledNum(i - 1, mean_) * model.coef.num * (l \div cd)
                   - model.intercept.num * (l \div model.intercept.den)]
        dev == [i \in 1..n |-> n * h[i] - sy]
        ssres == Frac(SumSeq([i \in 1..n |-> res[i] * res[i]]), l * l)
        sstot == Frac(SumSeq([i \in 1..n |-> dev[i] * dev[i]]), n * n)
    IN  IF sstot.num = 0
        THEN (IF ssres.num = 0 THEN FromInt(1) ELSE FromInt(0))
        ELSE RSub(FromInt(1), RDiv(ssres, sstot))

\* LastPrices that takes the whole history
LastPrices_All(h) == h

\* historical_prices[-7:]
LastPrices(h) ==
    LET k == IF Len(h) < RecentWindow THEN Len(h) ELSE RecentWindow
    IN  SubSeq(h, Len(h) - k + 1, Len(h))

\* lines 288-296: the comparison of the two averages
Trend(current_avg, future_avg) ==
    IF RLt(RMul(current_avg, IncreasingFactor), future_avg)
    THEN "increasing"
    ELSE IF RLt(future_avg, RMul(current_avg, DecreasingFactor))
    THEN "decreasing"
    ELSE "stable"

\* lines 268-304: the fit, the projection and the classification
FitAndClassify(h, d) ==
    IF d <= 0
    THEN \* future_X has no row: scaler.transform raises ValueError
         [raised |-> "ValueError"]
    ELSE
    LET n == Len(h)
        mean_ == ScalerMean(n)
        model == LinearRegressionFit(h, mean_)
        future_prices == [k \in 1..d |-> PredictAt(n + k - 1, mean_, model)]
        current_avg == Mean(LastPrices(h))
        future_avg == RMean(future_prices)
        trend == Trend(current_avg, future_avg)
    IN  [trend |-> trend,
         confidence |-> IF trend = "stable"
                        THEN StableConfidence
                        ELSE RMin(ConfidenceCap, RAbs(Score(h, mean_, model))),
         predicted_prices |-> future_prices,
         current_avg |-> current_avg,
         future_avg |-> future_avg]

\* predict_future_prices that fits any history of at least 7 prices
predict_future_prices_Min7(h, d) ==
    IF Len(h) < RecentWindow
    THEN [trend |-> "stable", confidence |-> InsufficientConfidence]
    ELSE FitAndClassify(h, d)

predict_future_prices(h, d) ==
    IF Len(h) < MinHistory
    THEN [trend |-> "stable", confidence |-> InsufficientConfidence]
    ELSE FitAndClassify(h, d)

(***************************************************************************)
(* tools.py: get_future_predictions                                        *)
(***************************************************************************)
\* h is what real_data_service.get_historical_prices returned
get_future_predictions(use_real_data, h) ==
    LET r == predict_future_prices(h, DefaultDaysAhead)
    IN  IF use_real_data /\ "raised" \notin DOMAIN r
        THEN r
        ELSE [trend |-> "stable", confidence |-> Frac(5, 10)]

(***************************************************************************)
(* agents.py: BedrockAgent.generate_explanation                            *)
(***************************************************************************)
\* the keys of the dict `explanations` (lines 77-82)
KnownDecisions == {"BUY NOW", "BUY", "WAIT", "ALTERNATE"}

\* lines 69-84.  An explanation is held as the template chosen and the values
\* the f-string embeds in it.
fallback_explanation(flight_data_, price_stats_, recommendation_) ==
    IF flight_data_.flights = <<>>
    THEN [template |-> "No flights found for this route"]
    ELSE
    LET cheapest == flight_data_.flights[1].price
        decision == recommendation_.decision
        explanations ==
            [d \in KnownDecisions |->
                IF d \in {"BUY NOW", "ALTERNATE"}
                THEN [template |-> d, cheapest |-> cheapest,
                      q10 |-> price_stats_.q10, q90 |-> price_stats_.q90]
                ELSE [template |-> d, cheapest |-> cheapest]]
    IN  IF decision \in DOMAIN explanations
        THEN explanations[decision]
        ELSE [template |-> "Unable to generate recommendation at this time"]

\* lines 26-67.  invoked is what self.bedrock.invoke_model did: "text" when
\* it answered, "ClientError" when it raised botocore's ClientError, and
\* "BotoCoreError" when it raised another exception (no credentials, no
\* endpoint connection), which the except clause of line 66 does not name.
generate_explanation(available_, flight_data_, price_stats_, recommendation_, invoked) ==
    IF ~available_
    THEN fallback_explanation(flight_data_, price_stats_, recommendation_)
    ELSE IF invoked = "text"
    THEN [text |-> "generated"]
    ELSE IF invoked = "ClientError"
    THEN fallback_explanation(flight_data_, price_stats_, recommendation_)
    ELSE [raised |-> invoked]

(***************************************************************************)
(* State: the module-level flag, the agent, the global random generator    *)
(* and the frame of the call in progress.                                  *)
(***************************************************************************)
VARIABLES
    USE_REAL_DATA,      \* tools.py module flag, fixed at import
    available,          \* BedrockAgent.available
    rng,                \* draws made so far from numpy's global generator
    pc,                 \* "idle" or "returned"
    op,                 \* the function whose frame is held
    current_price, price_stats, user_budget,   \* arguments of decide_recommendation
    price_history,      \* argument of predict_price_range
    historical_prices, days_ahead,   \* arguments of predict_future_prices
    flight_data, recommendation,     \* arguments of generate_explanation
    invoke_model,       \* what bedrock.invoke_model did in this call
    result,             \* the returned value
    previous            \* an earlier call the caller still holds the value of

vars == <<USE_REAL_DATA, available, rng, pc, op, current_price, price_stats,
          user_budget, price_history, historical_prices, days_ahead,
          flight_data, recommendation, invoke_model, result, previous>>

NoStats == [q10 |-> 0, q50 |-> 0, q90 |-> 0]
NoResult == [none |-> TRUE]
NoFlights == [flights |-> <<>>]
NoRecommendation == [decision |-> "none"]
NoCall == [op |-> "none"]

\* no agent has been constructed with a client
Init ==
    /\ USE_REAL_DATA \in BOOLEAN
    /\ available = FALSE
    /\ rng = 0
    /\ pc = "idle"
    /\ op = "none"
    /\ current_price = 0
    /\ price_stats = NoStats
    /\ user_budget = 1
    /\ price_history = <<>>
    /\ historical_prices = <<>>
    /\ days_ahead = DefaultDaysAhead
    /\ flight_data = NoFlights
    /\ recommendation = NoRecommendation
    /\ invoke_model = "none"
    /\ result = NoResult
    /\ previous = NoCall

\* price histories of at most n prices
SeqsUpTo(S, n) == UNION {[1..k -> S] : k \in 0..n}

\* the records predict_price_range returns, the default for the empty history
\* among them
SummaryRecords == {predict_price_range(h) : h \in SeqsUpTo(0..MaxPrice, MaxSummaryLen)}

\* statistics records with q10 <= q50 <= q90
StatsRecords ==
    {[q10 |-> a, q50 |-> b, q90 |-> c] :
        a \in 0..MaxQuantile, b \in 0..MaxQuantile, c \in 0..MaxQuantile}

ValidStats == {s \in StatsRecords : s.q10 <= s.q50 /\ s.q50 <= s.q90}

\* prices around the quantiles of the explored records and of the default
Quotes == (0..MaxQuote) \cup {DefaultQ10, DefaultQ50, DefaultQ90, DefaultQ90 + 1}

Budgets == (1..MaxBudget) \cup {DefaultQ50}

\* a call of decide_recommendation with its arguments taken from P, S and B
DecideRecommendation(P, S, B) ==
    /\ pc = "idle"
    /\ \E p \in P, s \in S, b \in B :
        /\ current_price' = p
        /\ price_stats' = s
        /\ user_budget' = b
        /\ result' = decide_recommendation(p, s, b)
    /\ op' = "decide_recommendation"
    /\ pc' = "returned"
    /\ UNCHANGED <<USE_REAL_DATA, price_history, historical_prices, days_ahead>>
    /\ UNCHANGED <<available, rng, flight_data, recommendation, invoke_model, previous>>

CallDecideRecommendation ==
    DecideRecommendation(Quotes, ValidStats \cup SummaryRecords, Budgets)

PriceHistories == SeqsUpTo(0..MaxPrice, MaxHistLen)

\* PredictPriceRange whose percentiles move with the random generator
PredictPriceRange_Seeded(H) ==
    /\ pc = "idle"
    /\ \E h \in H :
        /\ price_history' = h
        /\ result' = [predict_price_range(h) EXCEPT !.q50 = @ + rng]
    /\ op' = "predict_price_range"
    /\ pc' = "returned"
    /\ UNCHANGED <<USE_REAL_DATA, current_price, price_stats, user_budget,
                   historical_prices, days_ahead>>
    /\ UNCHANGED <<available, rng, flight_data, recommendation, invoke_model, previous>>

\* a call of predict_price_range with its argument taken from H
PredictPriceRange(H) ==
    /\ pc = "idle"
    /\ \E h \in H :
        /\ price_history' = h
        /\ result' = predict_price_range(h)
    /\ op' = "predict_price_range"
    /\ pc' = "returned"
    /\ UNCHANGED <<USE_REAL_DATA, current_price, price_stats, user_budget,
                   historical_prices, days_ahead>>
    /\ UNCHANGED <<available, rng, flight_data, recommendation, invoke_model, previous>>

CallPredictPriceRange == PredictPriceRange(PriceHistories)

\* a history of n prices: a constant lead followed by the given tail
LeadTail(n, lead, tail) ==
    [i \in 1..n |-> IF i <= n - Len(tail) THEN lead ELSE tail[i - (n - Len(tail))]]

\* a history of n prices in two steps, after the c1-th and the c2-th price:
\* 0, 1, 2 when rising and 2, 1, 0 when falling
Staircase(n, c1, c2, rising) ==
    [i \in 1..n |->
        LET level == (IF i > c1 THEN 1 ELSE 0) + (IF i > c2 THEN 1 ELSE 0)
        IN  IF rising THEN level ELSE 2 - level]

\* the staircases long enough to be fitted
Staircases ==
    UNION {{Staircase(n, c1, c2, rising) :
               c1 \in 0..n, c2 \in 0..n, rising \in BOOLEAN} :
           n \in MinHistory..MaxTrendLen}

\* histories of at most MaxTrendLen prices: every sequence of at most MaxTail
\* prices, longer ones made of a stable price followed by MaxTail free ones,
\* and the staircases
TrendHistories ==
    UNION {{LeadTail(n, lead, tail) :
               lead \in 0..MaxTrendPrice,
               tail \in [1..(IF n < MaxTail THEN n ELSE MaxTail) -> 0..MaxTrendPrice]} :
           n \in 0..MaxTrendLen}
    \cup Staircases

\* a call of predict_future_prices with its arguments taken from H and D
PredictFuturePrices(H, D) ==
    /\ pc = "idle"
    /\ \E h \in H, d \in D :
        /\ historical_prices' = h
        /\ days_ahead' = d
        /\ result' = predict_future_prices(h, d)
    /\ op' = "predict_future_prices"
    /\ pc' = "returned"
    /\ UNCHANGED <<USE_REAL_DATA, current_price, price_stats, user_budget,
                   price_history>>
    /\ UNCHANGED <<available, rng, flight_data, recommendation, invoke_model, previous>>

CallPredictFuturePrices == PredictFuturePrices(TrendHistories, 0..MaxDaysAhead)

\* get_historical_prices returns the stored prices, or 30 generated ones when
\* none are stored: never an empty list.  _generate_historical_data draws its
\* noise from numpy's global generator, which moves on.  Without the real
\* data service no history is fetched.  H holds the histories fetched.
GetFuturePredictions(H) ==
    /\ pc = "idle"
    /\ \E h \in (IF USE_REAL_DATA THEN H \ {<<>>} ELSE {<<>>}), generated \in BOOLEAN :
        /\ generated => (USE_REAL_DATA /\ rng < MaxDraws)
        /\ rng' = IF generated THEN rng + 1 ELSE rng
        /\ historical_prices' = h
        /\ result' = get_future_predictions(USE_REAL_DATA, h)
    /\ op' = "get_future_predictions"
    /\ pc' = "returned"
    /\ UNCHANGED <<USE_REAL_DATA, current_price, price_stats, user_budget,
                   price_history, days_ahead>>
    /\ UNCHANGED <<available, flight_data, recommendation, invoke_model, previous>>

CallGetFuturePredictions == GetFuturePredictions(TrendHistories)

\* agents.py lines 11-24: a BedrockAgent is constructed; available tells
\* whether the client was set up
BedrockAgentInit ==
    /\ pc = "idle"
    /\ available' \in BOOLEAN
    /\ UNCHANGED <<USE_REAL_DATA, rng, pc, op, current_price, price_stats,
                   user_budget, price_history, historical_prices, days_ahead,
                   flight_data, recommendation, invoke_model, result, previous>>

\* flight listings of at most MaxFlights flights, cheapest first
FlightLists ==
    {f \in SeqsUpTo({[price |-> p] : p \in 1..MaxFlightPrice}, MaxFlights) :
        \A i \in 1..(Len(f) - 1) : f[i].price <= f[i + 1].price}

\* recommendations as decide_recommendation returns them, and one whose
\* decision is none of the four
Recommendations ==
    {[decision |-> d, confidence |-> Frac(7, 10)] : d \in KnownDecisions \cup {"HOLD"}}

CallGenerateExplanation ==
    /\ pc = "idle"
    /\ \E f \in FlightLists, s \in SummaryRecords, r \in Recommendations,
          o \in (IF available THEN {"text", "ClientError", "BotoCoreError"}
                               ELSE {"none"}) :
        /\ flight_data' = [flights |-> f]
        /\ price_stats' = s
        /\ recommendation' = r
        /\ invoke_model' = o
        /\ result' = generate_explanation(available, [flights |-> f], s, r, o)
    /\ op' = "generate_explanation"
    /\ pc' = "returned"
    /\ UNCHANGED <<USE_REAL_DATA, available, rng, current_price, user_budget,
                   price_history, historical_prices, days_ahead, previous>>

\* the frame is dropped
DropFrame ==
    /\ pc = "returned"
    /\ pc' = "idle"
    /\ op' = "none"
    /\ current_price' = 0
    /\ price_stats' = NoStats
    /\ user_budget' = 1
    /\ price_history' = <<>>
    /\ historical_prices' = <<>>
    /\ days_ahead' = DefaultDaysAhead
    /\ flight_data' = NoFlights
    /\ recommendation' = NoRecommendation
    /\ invoke_model' = "none"
    /\ result' = NoResult
    /\ UNCHANGED <<USE_REAL_DATA, available, rng>>

Return ==
    /\ DropFrame
    /\ UNCHANGED previous

\* summarize, decide and predict of the decision core
CoreFunctions == {"predict_price_range", "decide_recommendation", "predict_future_prices"}

\* the arguments of the call whose frame is held
Arguments ==
    <<current_price, price_stats, user_budget, price_history, historical_prices,
      days_ahead>>

\* one of the core functions returns and the caller holds on to the value
ReturnKept ==
    /\ op \in CoreFunctions
    /\ DropFrame
    /\ previous' = [op |-> op, arguments |-> Arguments, result |-> result,
                     draws |-> rng]

\* calls of decide_recommendation
NextDecide ==
    \/ CallDecideRecommendation
    \/ Return

SpecDecide == Init /\ [][NextDecide]_vars

\* calls of predict_price_range
NextRange ==
    \/ CallPredictPriceRange
    \/ Return

SpecRange == Init /\ [][NextRange]_vars

\* calls of predict_future_prices, directly and through get_future_predictions
NextTrend ==
    \/ CallPredictFuturePrices
    \/ CallGetFuturePredictions
    \/ Return

SpecTrend == Init /\ [][NextTrend]_vars

\* the explanation layer
NextExplain ==
    \/ BedrockAgentInit
    \/ CallGenerateExplanation
    \/ Return

SpecExplain == Init /\ [][NextExplain]_vars

\* the inputs of the calls that are made twice
RepeatHistories == SeqsUpTo(0..MaxRepeatPrice, MaxRepeatLen)

RepeatStats == {predict_price_range(h) : h \in RepeatHistories}

RepeatTrendHistories ==
    {Staircase(n, c, c + RecentWindow, rising) :
        n \in (MinHistory - 1)..MinHistory, c \in 0..MaxRepeatLen, rising \in BOOLEAN}

RepeatDecide == DecideRecommendation(0..MaxRepeatPrice, RepeatStats, 1..MaxRepeatPrice)

RepeatSummarize == PredictPriceRange(RepeatHistories)

RepeatPredict == PredictFuturePrices(RepeatTrendHistories, {1, DefaultDaysAhead})

RepeatFetch == GetFuturePredictions(RepeatTrendHistories)

\* calls of the three core functions in any order, some values kept by the
\* caller, with fetches that move the random generator in between
NextRepeat ==
    \/ RepeatDecide
    \/ RepeatSummarize
    \/ RepeatPredict
    \/ RepeatFetch
    \/ Return
    \/ ReturnKept

SpecRepeat == Init /\ [][NextRepeat]_vars

Next ==
    \/ CallDecideRecommendation
    \/ CallPredictPriceRange
    \/ CallPredictFuturePrices
    \/ CallGetFuturePredictions
    \/ BedrockAgentInit
    \/ CallGenerateExplanation
    \/ Return
    \/ ReturnKept

Spec == Init /\ [][Next]_vars

(***************************************************************************)
(* Properties of decide_recommendation.                                    *)
(***************************************************************************)
Decided == pc = "returned" /\ op = "decide_recommendation"

\* current_price > user_budget * 1.2, over the integers
Overridden == 5 * current_price > 6 * user_budget

\* the number of the first rule of the chain that matches
Band ==
    CASE current_price <= price_stats.q10 -> 1
      [] current_price > price_stats.q10 /\ current_price <= price_stats.q50 -> 2
      [] current_price > price_stats.q50 /\ current_price <= price_stats.q90 -> 3
      [] OTHER -> 4

BandConfidence == <<[num |-> 9, den |-> 10], [num |-> 7, den |-> 10],
                    [num |-> 3, den |-> 5], [num |-> 4, den |-> 5]>>

BandPosition == <<"bottom 10%", "below median", "above median", "top 10%">>

OverageClause == "Significantly over budget"

HasOverageClause == \E i \in 1..Len(result.reason) : result.reason[i] = OverageClause

\* C1: when the price is not more than 1.2 times the budget, the result is
\* the outcome of the first matching rule: price <= q10 gives BUY NOW / 0.9 /
\* bottom 10%; else price <= q50 gives BUY or WAIT / 0.7 / below median; else
\* price <= q90 gives WAIT / 0.6 / above median; else ALTERNATE / 0.8 / top 10%.
C1_FirstMatchingRule ==
    (Decided /\ ~Overridden) =>
        /\ result.confidence = BandConfidence[Band]
        /\ result.price_position = BandPosition[Band]
        /\ Band = 1 => result.decision = "BUY NOW"
        /\ Band = 2 => result.decision \in {"BUY", "WAIT"}
        /\ Band = 3 => result.decision = "WAIT"
        /\ Band = 4 => result.decision = "ALTERNATE"

\* the boundary case: the price equals q10 = q50 = q90 and is within budget
C1_Witness ==
    /\ Decided /\ ~Overridden
    /\ current_price = price_stats.q10
    /\ price_stats.q10 = price_stats.q90
    /\ result.decision = "BUY NOW"
    /\ result.price_position = "bottom 10%"

\* C2: when the price is more than 1.2 times the budget the decision is
\* ALTERNATE whatever rule matched, the reason ends with the budget-overage
\* clause, and confidence and price_position are those of the matching rule;
\* when the price is at most 1.2 times the budget the clause is absent.
C2_BudgetOverride ==
    Decided =>
        /\ Overridden =>
            /\ result.decision = "ALTERNATE"
            /\ Len(result.reason) = 2
            /\ result.reason[2] = OverageClause
            /\ result.confidence = BandConfidence[Band]
            /\ result.price_position = BandPosition[Band]
        /\ ~Overridden => ~HasOverageClause

\* the BUY NOW rule matched and the budget override replaced its decision
C2_Witness ==
    /\ Decided /\ Overridden
    /\ Band = 1
    /\ result.decision = "ALTERNATE"
    /\ result.confidence = [num |-> 9, den |-> 10]

\* C3: in the below-median band the decision is BUY exactly when the price
\* is within the budget, WAIT when budget < price <= 1.2 * budget, and
\* ALTERNATE above that; confidence is 0.7 and the position 'below median'.
C3_BelowMedianBand ==
    (Decided /\ Band = 2) =>
        /\ result.decision = "BUY" <=> current_price <= user_budget
        /\ (current_price > user_budget /\ ~Overridden) => result.decision = "WAIT"
        /\ Overridden => result.decision = "ALTERNATE"
        /\ result.confidence = [num |-> 7, den |-> 10]
        /\ result.price_position = "below median"

\* below the median, over the budget but not by more than 20%
C3_Witness ==
    /\ Decided /\ Band = 2
    /\ current_price > user_budget /\ ~Overridden
    /\ result.decision = "WAIT"

\* C11: decide_recommendation raises no exception and returns a record with
\* decision, confidence, reason and price_position for every price, every
\* budget > 0 and every statistics record, the record of the empty history
\* (without mean and std) included.
C11_DecideTotal ==
    Decided =>
        /\ "raised" \notin DOMAIN result
        /\ DOMAIN result = {"decision", "confidence", "reason", "price_position"}

\* a recommendation made from the default record of the empty history
C11_Witness ==
    /\ Decided
    /\ price_stats = [q10 |-> 200, q50 |-> 250, q90 |-> 300]
    /\ "mean" \notin DOMAIN price_stats
    /\ current_price = 250
    /\ result.decision = "BUY"

\* C13: every recommendation has its decision among BUY NOW, BUY, WAIT and
\* ALTERNATE, its price_position among bottom 10%, below median, above
\* median and top 10%, and a confidence of 0.9, 0.7, 0.6 or 0.8, which lies
\* in [0, 1].
C13_Enumerations ==
    Decided =>
        /\ result.decision \in {"BUY NOW", "BUY", "WAIT", "ALTERNATE"}
        /\ result.price_position \in
              {"bottom 10%", "below median", "above median", "top 10%"}
        /\ result.confidence \in {[num |-> 9, den |-> 10], [num |-> 7, den |-> 10],
                                  [num |-> 3, den |-> 5], [num |-> 4, den |-> 5]}
        /\ 0 <= result.confidence.num
        /\ result.confidence.num <= result.confidence.den

\* an overridden recommendation: ALTERNATE with the confidence 0.6 of the
\* above-median rule
C13_Witness ==
    /\ Decided /\ Overridden
    /\ result.decision = "ALTERNATE"
    /\ result.price_position = "above median"
    /\ result.confidence = [num |-> 3, den |-> 5]

\* C16: BUY is returned only for a price within the budget, and BUY or
\* BUY NOW only for a price of at most 1.2 times the budget.
C16_NoPurchaseFarOverBudget ==
    Decided =>
        /\ result.decision = "BUY" => current_price <= user_budget
        /\ result.decision \in {"BUY", "BUY NOW"} =>
              10 * current_price <= 12 * user_budget

\* BUY NOW for a price over the budget by not more than 20%
C16_Witness ==
    /\ Decided
    /\ result.decision = "BUY NOW"
    /\ current_price > user_budget
    /\ 10 * current_price <= 12 * user_budget

(***************************************************************************)
(* Properties of predict_price_range.                                      *)
(***************************************************************************)
Summarized == pc = "returned" /\ op = "predict_price_range"

\* C4: an empty history gives exactly {q10: 200, q50: 250, q90: 300}; mean
\* and std are present if and only if the history is non-empty.
C4_EmptyHistoryDefault ==
    Summarized =>
        /\ price_history = <<>> => result = [q10 |-> 200, q50 |-> 250, q90 |-> 300]
        /\ "mean" \in DOMAIN result <=> price_history # <<>>
        /\ "std" \in DOMAIN result <=> price_history # <<>>

\* the summarizer has returned for the empty history
C4_Witness ==
    /\ Summarized
    /\ price_history = <<>>
    /\ DOMAIN result = {"q10", "q50", "q90"}

\* C5: for a non-empty history the returned q10 <= q50 <= q90.
C5_QuantilesOrdered ==
    (Summarized /\ price_history # <<>>) =>
        /\ result.q10 <= result.q50
        /\ result.q50 <= result.q90

\* a history whose three truncated percentiles are all different
C5_Witness ==
    /\ Summarized
    /\ Len(price_history) >= 2
    /\ result.q10 < result.q50
    /\ result.q50 < result.q90

\* the k-th smallest price of h (k = 1..Len(h)), by counting
OrderStatistic(h, k) ==
    CHOOSE v \in {h[i] : i \in 1..Len(h)} :
        /\ Cardinality({i \in 1..Len(h) : h[i] < v}) < k
        /\ k <= Cardinality({i \in 1..Len(h) : h[i] <= v})

\* the p-th percentile of h by interpolation at rank p/100 * (n-1), truncated
TruncatedPercentile(h, p) ==
    LET n == Len(h)
        lo == (p * (n - 1)) \div 100
        rem == (p * (n - 1)) % 100
        a == OrderStatistic(h, lo + 1)
        b == IF rem = 0 THEN a ELSE OrderStatistic(h, lo + 2)
    IN  (100 * a + (b - a) * rem) \div 100

SumOfSquares(h) == SumSeq([i \in 1..Len(h) |-> h[i] * h[i]])

\* k is the population standard deviation of h truncated to an integer
IsTruncatedStd(h, k) ==
    LET n == Len(h)
        nnvar == n * SumOfSquares(h) - SumSeq(h) * SumSeq(h)
    IN  /\ k >= 0
        /\ k * k * n * n <= nnvar
        /\ nnvar < (k + 1) * (k + 1) * n * n

\* h with the prices at positions i and j exchanged
Swapped(h, i, j) ==
    [k \in 1..Len(h) |-> IF k = i THEN h[j] ELSE IF k = j THEN h[i] ELSE h[k]]

C7_SingleElement ==
    (Summarized /\ Len(price_history) = 1) =>
        result = [q10 |-> price_history[1], q50 |-> price_history[1],
                  q90 |-> price_history[1], mean |-> price_history[1], std |-> 0]

\* the summarizer has returned for a history of one positive price
C7_Witness ==
    /\ Summarized
    /\ Len(price_history) = 1
    /\ price_history[1] > 0
    /\ result.q50 = price_history[1]

(***************************************************************************)
(* Properties of predict_future_prices.                                    *)
(***************************************************************************)
Predicted == pc = "returned" /\ op = "predict_future_prices"

\* C8: a history of fewer than 10 prices gives exactly trend 'stable' and
\* confidence 0.5 and no other field, whatever the prices and the horizon.
C8_InsufficientData ==
    (Predicted /\ Len(historical_prices) < 10) =>
        result = [trend |-> "stable", confidence |-> [num |-> 1, den |-> 2]]

\* nine prices, not all equal, and a positive horizon
C8_Witness ==
    /\ Predicted
    /\ Len(historical_prices) = 9
    /\ historical_prices[1] < historical_prices[9]
    /\ days_ahead > 0
    /\ result.trend = "stable"

\* the least-squares line through (i, h[i+1]), i = 0..n-1, in the textbook
\* form: slope (n Sxy - Sx Sy) / (n Sxx - Sx Sx), value at t as one fraction
LineSx(h) == SumSeq([i \in 1..Len(h) |-> i - 1])
LineSxx(h) == SumSeq([i \in 1..Len(h) |-> (i - 1) * (i - 1)])
LineSxy(h) == SumSeq([i \in 1..Len(h) |-> (i - 1) * h[i]])
SlopeNum(h) == Len(h) * LineSxy(h) - LineSx(h) * SumSeq(h)
SlopeDen(h) == Len(h) * LineSxx(h) - LineSx(h) * LineSx(h)

\* numerator of the line at t, over the denominator Len(h) * SlopeDen(h)
LineNum(h, t) ==
    SumSeq(h) * SlopeDen(h) - SlopeNum(h) * LineSx(h) + Len(h) * SlopeNum(h) * t

LineAt(h, t) == Frac(LineNum(h, t), Len(h) * SlopeDen(h))

ExpectedTrend(ca, fa) ==
    IF 20 * fa.num * ca.den > 21 * ca.num * fa.den THEN "increasing"
    ELSE IF 20 * fa.num * ca.den < 19 * ca.num * fa.den THEN "decreasing"
    ELSE "stable"

\* C9: for a history of n >= 10 prices and a horizon of days_ahead >= 1 days,
\* current_avg is the mean of the last 7 prices, predicted_prices are the
\* days_ahead values of the least-squares line at n .. n+days_ahead-1,
\* future_avg is their mean, and the trend is increasing when
\* future_avg > 1.05 current_avg, else decreasing when
\* future_avg < 0.95 current_avg, else stable.
C9_TrendClassification ==
    (Predicted /\ Len(historical_prices) >= 10 /\ days_ahead >= 1) =>
        LET h == historical_prices
            n == Len(h)
        IN  /\ result.current_avg =
                  Frac(h[n-6] + h[n-5] + h[n-4] + h[n-3] + h[n-2] + h[n-1] + h[n], 7)
            /\ Len(result.predicted_prices) = days_ahead
            /\ \A k \in 1..days_ahead :
                  result.predicted_prices[k] = LineAt(h, n + k - 1)
            /\ result.future_avg =
                  Frac(SumSeq([k \in 1..days_ahead |-> LineNum(h, n + k - 1)]),
                       days_ahead * n * SlopeDen(h))
            /\ result.trend = ExpectedTrend(result.current_avg, result.future_avg)

\* a falling history: two projected points and the trend 'decreasing'
C9_Witness ==
    /\ Predicted
    /\ Len(historical_prices) >= 10
    /\ days_ahead = 2
    /\ Len(result.predicted_prices) = 2
    /\ result.trend = "decreasing"
    /\ result.current_avg.num > 0

\* the coefficient of determination of the least-squares line, as the squared
\* correlation of index and price: (n Sxy - Sx Sy)^2 over
\* (n Sxx - Sx Sx) (n Syy - Sy Sy); defined when the prices are not all equal
LineSyy(h) == SumSeq([i \in 1..Len(h) |-> h[i] * h[i]])
SpreadY(h) == Len(h) * LineSyy(h) - SumSeq(h) * SumSeq(h)
RSquared(h) == Frac(SlopeNum(h) * SlopeNum(h), SlopeDen(h) * SpreadY(h))

\* C12: every record predict_future_prices returns has its trend among
\* increasing, decreasing and stable and a confidence in [0, 0.8]: 0.5 for a
\* history of fewer than 10 prices, 0.6 for a stable trend on at least 10
\* prices, and the smaller of 0.8 and |R^2| of the fit for an increasing or
\* decreasing trend.
C12_TrendConfidence ==
    (Predicted /\ "raised" \notin DOMAIN result) =>
        LET h == historical_prices
            c == result.confidence
        IN  /\ result.trend \in {"increasing", "decreasing", "stable"}
            /\ 0 <= c.num /\ 5 * c.num <= 4 * c.den
            /\ Len(h) < 10 => c = [num |-> 1, den |-> 2]
            /\ (Len(h) >= 10 /\ result.trend = "stable") => c = [num |-> 3, den |-> 5]
            /\ (Len(h) >= 10 /\ result.trend # "stable") =>
                  /\ SpreadY(h) > 0
                  /\ c = (IF 5 * RSquared(h).num > 4 * RSquared(h).den
                          THEN [num |-> 4, den |-> 5]
                          ELSE RSquared(h))

\* a rising history whose fit has R^2 above 0.8: the confidence is capped
C12_Witness ==
    /\ Predicted
    /\ Len(historical_prices) >= 10
    /\ days_ahead >= 1
    /\ result.trend = "increasing"
    /\ 5 * RSquared(historical_prices).num > 4 * RSquared(historical_prices).den
    /\ result.confidence = [num |-> 4, den |-> 5]

\* C10: the trend predictor never fails its caller: every call returns a
\* record with a trend and a confidence, whatever the history and horizon.
C10_NeverFails ==
    (pc = "returned" /\ op \in {"predict_future_prices", "get_future_predictions"}) =>
        /\ "raised" \notin DOMAIN result
        /\ "trend" \in DOMAIN result
        /\ "confidence" \in DOMAIN result

(***************************************************************************)
(* Properties of generate_explanation.                                     *)
(***************************************************************************)
Explained == pc = "returned" /\ op = "generate_explanation"

\* the agent has no client, or the call of the service failed
NoGenerativeService ==
    \/ ~available
    \/ invoke_model \in {"ClientError", "BotoCoreError"}

\* C14: when the agent is not available or the service call fails,
\* generate_explanation returns the fallback explanation, and the template
\* of it is chosen by the decision alone: the template of the decision for
\* the four known decisions, the generic 'unable to generate' message for
\* any other.
C14_FallbackKeyedOnDecision ==
    (Explained /\ NoGenerativeService) =>
        /\ "template" \in DOMAIN result
        /\ result.template =
              (IF recommendation.decision \in {"BUY NOW", "BUY", "WAIT", "ALTERNATE"}
               THEN recommendation.decision
               ELSE "Unable to generate recommendation at this time")

(***************************************************************************)
(* Properties of repeated calls.                                           *)
(***************************************************************************)
\* the frame held is a second call of the function the kept value came from,
\* with the same arguments
CalledAgain ==
    /\ pc = "returned"
    /\ op \in {"predict_price_range", "decide_recommendation", "predict_future_prices"}
    /\ previous.op = op
    /\ previous.arguments = Arguments

=============================================================================
